---- MODULE Spec2Model ----
(***************************************************************************)
(* Model of src/app.py: the in-memory resume scoring queue.                *)
(*                                                                         *)
(* One background coroutine (resume_worker) consumes resume_scoring_queue  *)
(* and writes resume_results; every POST /score-resumes runs               *)
(* score_resumes_endpoint, which enqueues one job per uploaded file and    *)
(* then polls resume_results every 0.5s for at most 90s.                   *)
(*                                                                         *)
(* Everything runs on one asyncio event loop, so a step of the model is    *)
(* the code between two suspension points.  The suspension points are      *)
(*   - resume_scoring_queue.get() on an empty queue      (line 175),       *)
(*   - the HTTP call inside score_resume_via_openai      (line 145),       *)
(*   - asyncio.sleep(0.5) in the wait loop               (line 247).       *)
(* resume_scoring_queue.put() on an unbounded asyncio.Queue never          *)
(* suspends, so lines 217-246 of the endpoint run as one step.             *)
(***************************************************************************)
EXTENDS Naturals, Sequences, FiniteSets, TLC

(***************************************************************************)
(* Bounds of the model.                                                    *)
(***************************************************************************)
NumCalls == 2   \* POST /score-resumes requests
MaxFiles == 2   \* files uploaded by one request
MaxJobs  == 2   \* job ids generated over the whole run

Calls == 1..NumCalls

VARIABLES
    resume_scoring_queue,  \* asyncio.Queue: sequence of job dicts, head first
    resume_results,        \* dict job_id -> result
    worker_job,            \* jobs the worker has got and not yet task_done()
    next_uuid,             \* uuid.uuid4(): ids are fresh; the n-th id is n
    pc,                    \* per request: "idle", "sleep" (line 247), "done"
    criteria,              \* per request: the form field criteria
    job_ids,               \* per request: the local list job_ids
    criteria_list,         \* per request: the local criteria_list
    expired,               \* per request: time.time() - start_time > timeout
    response,              \* per request: what the caller receives
    enqueued,              \* log: job ids in the order of put()   (line 239)
    taken,                 \* log: job ids in the order of get()   (line 175)
    written,               \* log: job ids in the order of line 185
    failed                 \* log: job ids whose scoring raised    (line 189)

vars == <<resume_scoring_queue, resume_results, worker_job, next_uuid, pc,
          criteria, job_ids, criteria_list, expired, response, enqueued, taken,
          written, failed>>

(***************************************************************************)
(* Inputs.                                                                 *)
(***************************************************************************)
\* The criteria form field: its text either is JSON or is not, and the JSON
\* value either is an array or is not (an object, a string, a number).
CriteriaPayloads ==
    { [is_json |-> FALSE, is_array |-> FALSE, items |-> <<>>],
      [is_json |-> TRUE,  is_array |-> FALSE, items |-> <<>>],
      [is_json |-> TRUE,  is_array |-> TRUE,  items |-> <<"Python", "AWS">>] }

\* An uploaded file: filename stem, extension, and whether PyPDF2 / python-docx
\* can read its bytes.  The text of a readable file is left out: it is only
\* passed on to the scoring service, whose answer is any of ScoreResults.
UploadFiles ==
    { [stem |-> "alice", ext |-> "pdf",  readable |-> TRUE],
      [stem |-> "bob",   ext |-> "docx", readable |-> TRUE],
      [stem |-> "carol", ext |-> "txt",  readable |-> TRUE] }

\* The criteria field of a request that has not arrived.
NoPayload == [is_json |-> FALSE, is_array |-> FALSE, items |-> <<>>]

FileLists == UNION { [1..n -> UploadFiles] : n \in 1..MaxFiles }

\* What score_resume_via_openai returns when it does not raise: a JSON object
\* that has the key "scores" (line 158).  The code checks nothing else: the
\* value of "scores" may be an object or not (here the array [4, 3]), it may
\* lack criteria, and the top-level key "Total Score" may be missing.  A dict
\* is modelled by the presence of each key the program reads (has_...) and
\* the key's value.
ScoreResults ==
    { [has_scores |-> TRUE, scores_is_dict |-> TRUE,
       scores |-> ("Python" :> 4 @@ "AWS" :> 3),
       has_total |-> TRUE,  total |-> 7,
       has_name |-> FALSE, candidate_name |-> ""],
      [has_scores |-> TRUE, scores_is_dict |-> TRUE,
       scores |-> ("Python" :> 5),
       has_total |-> FALSE, total |-> 0,
       has_name |-> FALSE, candidate_name |-> ""],
      [has_scores |-> TRUE, scores_is_dict |-> FALSE,
       scores |-> ("0" :> 4 @@ "1" :> 3),
       has_total |-> TRUE,  total |-> 7,
       has_name |-> FALSE, candidate_name |-> ""] }

\* The empty dict {} that resume_results.get(job_id, {}) defaults to.
EmptyDict ==
    [has_scores |-> FALSE, scores_is_dict |-> FALSE, scores |-> [k \in {} |-> 0],
     has_total |-> FALSE, total |-> 0, has_name |-> FALSE, candidate_name |-> ""]

(***************************************************************************)
(* Helper functions of the program.                                        *)
(***************************************************************************)
\* Variant of CriteriaAccepted without the isinstance test of line 220.
CriteriaAcceptedAnyJson(payload) == payload.is_json

\* json.loads(criteria) succeeds and isinstance(criteria_list, list).
CriteriaAccepted(payload) == payload.is_json /\ payload.is_array

\* extract_text: "ok" or the detail of the HTTPException(400) it raises.
extract_text(file) ==
    IF file.ext = "pdf"
    THEN IF file.readable THEN "ok" ELSE "Error processing PDF"
    ELSE IF file.ext \in {"docx", "doc"}
    THEN IF file.readable THEN "ok" ELSE "Error processing DOCX"
    ELSE "Unsupported file type"

\* extract_candidate_name: filename.rsplit(".", 1)[0].
extract_candidate_name(file) == file.stem

\* Number of leading files of the list for which extract_text returns.
RECURSIVE GoodPrefix(_)
GoodPrefix(files) ==
    IF files = <<>> \/ extract_text(Head(files)) # "ok"
    THEN 0
    ELSE 1 + GoodPrefix(Tail(files))

\* job_data of the i-th file when uuid4 has handed out first-1 ids before the call.
JobData(files, items, first, i) ==
    [job_id         |-> first + i - 1,
     candidate_name |-> extract_candidate_name(files[i]),
     criteria       |-> items]

\* any(job_id not in resume_results for job_id in job_ids)
AnyAbsent(ids, results) ==
    \E i \in 1..Len(ids) : ids[i] \notin DOMAIN results

\* res.get("scores", {}).get(crit, 0) when the value of "scores" is a dict.
ScoresGet(res, crit) ==
    IF res.has_scores /\ crit \in DOMAIN res.scores THEN res.scores[crit] ELSE 0

\* Line 262 raises AttributeError: the value of "scores" is not a dict and
\* has no .get, which the first criterion of the list calls.
RowRaises(res, crits) ==
    Len(crits) > 0 /\ res.has_scores /\ ~res.scores_is_dict

\* Variant of Row whose cells run over the criteria list from its end.
RowReversed(res, crits) ==
    [candidate |-> IF res.has_name THEN res.candidate_name ELSE "Unknown",
     cells     |-> [i \in 1..Len(crits) |->
                        ScoresGet(res, crits[Len(crits) + 1 - i])],
     total     |-> IF res.has_total THEN res.total ELSE 0]

\* Lines 258-262: the row of one job: candidate, one cell per criterion, total.
Row(res, crits) ==
    [candidate |-> IF res.has_name THEN res.candidate_name ELSE "Unknown",
     cells     |-> [i \in 1..Len(crits) |-> ScoresGet(res, crits[i])],
     total     |-> IF res.has_total THEN res.total ELSE 0]

\* resume_results.get(job_id, {})
ResultsGet(results, job_id) ==
    IF job_id \in DOMAIN results THEN results[job_id] ELSE EmptyDict

(***************************************************************************)
(* Responses of POST /score-resumes.                                       *)
(***************************************************************************)
NoTable == [header |-> <<>>, rows |-> <<>>]

NoResponse == [status |-> 0, detail |-> "", table |-> NoTable]

HttpError(status, detail) == [status |-> status, detail |-> detail, table |-> NoTable]

\* Lines 253-267: the CSV table, or the unhandled exception of line 262,
\* which the framework turns into 500 Internal Server Error.
Assemble(ids, crits, results) ==
    IF \E i \in 1..Len(ids) : RowRaises(ResultsGet(results, ids[i]), crits)
    THEN HttpError(500, "Internal Server Error")
    ELSE [status |-> 200,
          detail |-> "",
          table  |-> [header |-> <<"Candidate Name">> \o crits \o <<"Total Score">>,
                      rows   |-> [i \in 1..Len(ids) |->
                                    Row(ResultsGet(results, ids[i]), crits)]]]

(***************************************************************************)
(* The queue and the worker.                                               *)
(***************************************************************************)
\* Variant of GetIndex for a LIFO queue: the right end.
GetIndexLifo(queue) == Len(queue)

\* Position of the item asyncio.Queue.get() returns: the left end of the deque.
GetIndex(queue) == 1

QueueGet(queue) == queue[GetIndex(queue)]

\* Variant of QueueRest for a get() that reads the job and leaves it queued.
QueueRestPeek(queue) == queue

QueueRest(queue) ==
    [i \in 1..(Len(queue) - 1) |->
        IF i < GetIndex(queue) THEN queue[i] ELSE queue[i + 1]]

\* Variant of WorkerWaiting with a second resume_worker task, which gets a
\* job while the first is in its scoring call.
WorkerWaitingOrSecondWorker == TRUE

\* The worker is suspended in resume_scoring_queue.get() (line 175).
WorkerWaiting == worker_job = {}

\* Variant of StoreResult without line 186: the result is stored as the
\* scoring call returned it.
StoreResultUnlabelled(results, job, result) ==
    [k \in DOMAIN results \cup {job.job_id} |->
        IF k = job.job_id THEN result ELSE results[k]]

\* Variant of StoreResult that rebinds resume_results to a dict holding the
\* new result only.
StoreResultOnly(results, job, result) ==
    [k \in {job.job_id} |->
        [result EXCEPT !.has_name = TRUE, !.candidate_name = job.candidate_name]]

\* Lines 185-186: resume_results[job_id] = result, then candidate_name is set.
StoreResult(results, job, result) ==
    [k \in DOMAIN results \cup {job.job_id} |->
        IF k = job.job_id
        THEN [result EXCEPT !.has_name = TRUE, !.candidate_name = job.candidate_name]
        ELSE results[k]]

Init ==
    /\ resume_scoring_queue = <<>>
    /\ resume_results = [k \in {} |-> EmptyDict]
    /\ worker_job = {}
    /\ next_uuid = 1
    /\ pc = [b \in Calls |-> "idle"]
    /\ criteria = [b \in Calls |-> NoPayload]
    /\ job_ids = [b \in Calls |-> <<>>]
    /\ criteria_list = [b \in Calls |-> <<>>]
    /\ expired = [b \in Calls |-> FALSE]
    /\ response = [b \in Calls |-> NoResponse]
    /\ enqueued = <<>>
    /\ taken = <<>>
    /\ written = <<>>
    /\ failed = {}

\* Line 175 when the worker was suspended in get(): a put() has woken it up
\* and it takes the head of the queue, then suspends in the scoring call.
WorkerTake ==
    /\ WorkerWaiting
    /\ resume_scoring_queue # <<>>
    /\ worker_job' = worker_job \cup {QueueGet(resume_scoring_queue)}
    /\ taken' = Append(taken, QueueGet(resume_scoring_queue).job_id)
    /\ resume_scoring_queue' = QueueRest(resume_scoring_queue)
    /\ UNCHANGED <<resume_results, next_uuid, pc, criteria, job_ids,
                   criteria_list, expired, response, enqueued, written, failed>>

\* Lines 190 and 175 after a job: task_done(), and the loop goes back to
\* get(), which returns at once when the queue is not empty.
WorkerLoop(job) ==
    IF resume_scoring_queue # <<>>
    THEN /\ worker_job' = (worker_job \ {job}) \cup {QueueGet(resume_scoring_queue)}
         /\ taken' = Append(taken, QueueGet(resume_scoring_queue).job_id)
         /\ resume_scoring_queue' = QueueRest(resume_scoring_queue)
    ELSE /\ worker_job' = worker_job \ {job}
         /\ UNCHANGED <<taken, resume_scoring_queue>>

\* Lines 178-187: score_resume_via_openai returns result; it is stored.
ScoreReturns(result) ==
    /\ \E job \in worker_job :
          /\ resume_results' = StoreResult(resume_results, job, result)
          /\ written' = Append(written, job.job_id)
          /\ WorkerLoop(job)
    /\ UNCHANGED <<next_uuid, pc, criteria, job_ids, criteria_list, expired,
                   response, enqueued, failed>>

\* Variant of ScoreRaises that retries: a job whose scoring raised for the
\* first time is put back at the end of the queue.
ScoreRaisesRequeue ==
    /\ \E job \in worker_job :
          /\ failed' = failed \cup {job.job_id}
          /\ worker_job' = worker_job \ {job}
          /\ resume_scoring_queue' =
                IF job.job_id \in failed
                THEN resume_scoring_queue
                ELSE Append(resume_scoring_queue, job)
    /\ UNCHANGED <<resume_results, next_uuid, pc, criteria, job_ids,
                   criteria_list, expired, response, enqueued, taken, written>>

\* Lines 188-189: score_resume_via_openai raises; the error is logged.
ScoreRaises ==
    /\ \E job \in worker_job :
          /\ failed' = failed \cup {job.job_id}
          /\ WorkerLoop(job)
    /\ UNCHANGED <<resume_results, next_uuid, pc, criteria, job_ids,
                   criteria_list, expired, response, enqueued, written>>

(***************************************************************************)
(* score_resumes_endpoint.  Requests are interchangeable, so they are      *)
(* numbered in the order in which they arrive.                             *)
(***************************************************************************)
Arrives(b) == pc[b] = "idle" /\ \A a \in 1..(b - 1) : pc[a] # "idle"

\* Lines 218-224: the criteria field is not JSON or not a list: 400.
RejectCriteria(b, payload) ==
    /\ Arrives(b)
    /\ ~CriteriaAccepted(payload)
    /\ criteria' = [criteria EXCEPT ![b] = payload]
    /\ response' = [response EXCEPT ![b] = HttpError(400, "Invalid criteria format")]
    /\ pc' = [pc EXCEPT ![b] = "done"]
    /\ UNCHANGED <<resume_scoring_queue, resume_results, worker_job, next_uuid,
                   job_ids, criteria_list, expired, enqueued, taken, written,
                   failed>>

\* Lines 218-247 with an accepted criteria list: for each file in turn,
\* extract_text, then put() of its job.  The first file extract_text rejects
\* ends the request with 400, after the jobs of the files before it were put.
\* Otherwise start_time is taken and the wait loop is entered.
Submit(b, payload, files) ==
    /\ Arrives(b)
    /\ CriteriaAccepted(payload)
    /\ criteria' = [criteria EXCEPT ![b] = payload]
    /\ LET good == GoodPrefix(files)
           jobs == [i \in 1..good |-> JobData(files, payload.items, next_uuid, i)]
           ids  == [i \in 1..good |-> jobs[i].job_id]
       IN  /\ next_uuid + good - 1 <= MaxJobs
           /\ resume_scoring_queue' = resume_scoring_queue \o jobs
           /\ enqueued' = enqueued \o ids
           /\ next_uuid' = next_uuid + good
           /\ job_ids' = [job_ids EXCEPT ![b] = ids]
           /\ criteria_list' = [criteria_list EXCEPT ![b] = payload.items]
           /\ IF good < Len(files)
              THEN /\ response' = [response EXCEPT
                          ![b] = HttpError(400, extract_text(files[good + 1]))]
                   /\ pc' = [pc EXCEPT ![b] = "done"]
              ELSE IF AnyAbsent(ids, resume_results)
              THEN /\ pc' = [pc EXCEPT ![b] = "sleep"]
                   /\ UNCHANGED response
              ELSE /\ response' = [response EXCEPT
                          ![b] = Assemble(ids, payload.items, resume_results)]
                   /\ pc' = [pc EXCEPT ![b] = "done"]
    /\ UNCHANGED <<resume_results, worker_job, expired, taken, written, failed>>

\* Line 248: wall-clock time passes the deadline, time.time() - start_time >
\* timeout, while the request is suspended in asyncio.sleep(0.5).
Elapse(b) ==
    /\ pc[b] = "sleep"
    /\ ~expired[b]
    /\ expired' = [expired EXCEPT ![b] = TRUE]
    /\ UNCHANGED <<resume_scoring_queue, resume_results, worker_job, next_uuid,
                   pc, criteria, job_ids, criteria_list, response, enqueued,
                   taken, written, failed>>

\* Variant of DeadlinePassed for a wait loop without the test of line 248.
DeadlineNeverPassed(b) == FALSE

\* The deadline test of line 248, made when asyncio.sleep returns.
DeadlinePassed(b) == expired[b]

\* Variant of Poll that evicts: the results read for the table are taken
\* out of resume_results (pop instead of get).
PollEvicting(b) ==
    /\ pc[b] = "sleep"
    /\ IF DeadlinePassed(b)
       THEN /\ response' = [response EXCEPT
                   ![b] = HttpError(504, "Timeout waiting for resume scoring results")]
            /\ pc' = [pc EXCEPT ![b] = "done"]
            /\ UNCHANGED resume_results
       ELSE IF AnyAbsent(job_ids[b], resume_results)
       THEN UNCHANGED <<response, pc, resume_results>>
       ELSE /\ response' = [response EXCEPT
                   ![b] = Assemble(job_ids[b], criteria_list[b], resume_results)]
            /\ pc' = [pc EXCEPT ![b] = "done"]
            /\ resume_results' =
                  [k \in DOMAIN resume_results \
                        {job_ids[b][i] : i \in 1..Len(job_ids[b])} |->
                      resume_results[k]]
    /\ UNCHANGED <<resume_scoring_queue, worker_job, next_uuid,
                   criteria, job_ids, criteria_list, expired, enqueued, taken,
                   written, failed>>

\* Variant of Poll that cancels on timeout: past the deadline the jobs of the
\* request that still wait in the queue are removed from it.
PollCancelling(b) ==
    /\ pc[b] = "sleep"
    /\ IF DeadlinePassed(b)
       THEN /\ response' = [response EXCEPT
                   ![b] = HttpError(504, "Timeout waiting for resume scoring results")]
            /\ pc' = [pc EXCEPT ![b] = "done"]
            /\ LET Others(job) ==
                       \A i \in 1..Len(job_ids[b]) : job_ids[b][i] # job.job_id
               IN  resume_scoring_queue' = SelectSeq(resume_scoring_queue, Others)
       ELSE IF AnyAbsent(job_ids[b], resume_results)
       THEN UNCHANGED <<response, pc, resume_scoring_queue>>
       ELSE /\ response' = [response EXCEPT
                   ![b] = Assemble(job_ids[b], criteria_list[b], resume_results)]
            /\ pc' = [pc EXCEPT ![b] = "done"]
            /\ UNCHANGED resume_scoring_queue
    /\ UNCHANGED <<resume_results, worker_job, next_uuid,
                   criteria, job_ids, criteria_list, expired, enqueued, taken,
                   written, failed>>

\* Lines 247-267: asyncio.sleep(0.5) returns.  Past the deadline the request
\* ends with 504; else the loop condition of line 246 is evaluated again, and
\* the request sleeps again or leaves the loop and builds the table.
Poll(b) ==
    /\ pc[b] = "sleep"
    /\ IF DeadlinePassed(b)
       THEN /\ response' = [response EXCEPT
                   ![b] = HttpError(504, "Timeout waiting for resume scoring results")]
            /\ pc' = [pc EXCEPT ![b] = "done"]
       ELSE IF AnyAbsent(job_ids[b], resume_results)
       THEN UNCHANGED <<response, pc>>
       ELSE /\ response' = [response EXCEPT
                   ![b] = Assemble(job_ids[b], criteria_list[b], resume_results)]
            /\ pc' = [pc EXCEPT ![b] = "done"]
    /\ UNCHANGED <<resume_scoring_queue, resume_results, worker_job, next_uuid,
                   criteria, job_ids, criteria_list, expired, enqueued, taken,
                   written, failed>>

Next ==
    \/ \E b \in Calls, payload \in CriteriaPayloads : RejectCriteria(b, payload)
    \/ \E b \in Calls, payload \in CriteriaPayloads, files \in FileLists :
          Submit(b, payload, files)
    \/ \E b \in Calls : Elapse(b)
    \/ \E b \in Calls : Poll(b)
    \/ WorkerTake
    \/ \E result \in ScoreResults : ScoreReturns(result)
    \/ ScoreRaises

Spec == Init /\ [][Next]_vars

\* The event loop runs the worker when a job is queued, and every scoring
\* call ends: it returns or raises (httpx timeout=60.0, line 144).
WorkerFairSpec ==
    /\ Spec
    /\ WF_vars(WorkerTake)
    /\ WF_vars((\E result \in ScoreResults : ScoreReturns(result)) \/ ScoreRaises)

\* Moreover wall-clock time passes, and the event loop runs a request when
\* its asyncio.sleep(0.5) is over.
FairSpec ==
    /\ WorkerFairSpec
    /\ \A b \in Calls : WF_vars(Elapse(b)) /\ WF_vars(Poll(b))

\* Only the wait loop is scheduled fairly: wall-clock time passes and the
\* event loop runs a request when its asyncio.sleep(0.5) is over, while a
\* scoring call may never end and the worker may never write.
WaitFairSpec ==
    /\ Spec
    /\ \A b \in Calls : WF_vars(Elapse(b)) /\ WF_vars(Poll(b))

(***************************************************************************)
(* Vocabulary of the properties.                                           *)
(***************************************************************************)
Range(seq) == { seq[i] : i \in 1..Len(seq) }

\* Jobs whose scoring call has returned or raised.
Finished == Range(written) \cup failed

\* How often id occurs in seq.
Occurrences(seq, id) == Cardinality({ i \in 1..Len(seq) : seq[i] = id })

\* Position of id in seq (0 when absent).
Position(seq, id) ==
    IF id \in Range(seq) THEN CHOOSE i \in 1..Len(seq) : seq[i] = id ELSE 0

\* Request b has put all its jobs and is in, or has left, the wait loop.
Entered(b) == pc[b] = "sleep" \/ (pc[b] = "done" /\ response[b].status # 400)

\* Request b ended with the CSV table.
HasTable(b) == pc[b] = "done" /\ response[b].status = 200

\* Every job of request b has a result in resume_results.
AllPresent(b) == \A i \in 1..Len(job_ids[b]) : job_ids[b][i] \in DOMAIN resume_results

\* The criteria field does not parse, or parses to something that is no list.
Malformed(payload) == ~payload.is_json \/ ~payload.is_array

\* The table row of a job without scores: its label, then zeros.
IsZeroRow(row) == (\A i \in 1..Len(row.cells) : row.cells[i] = 0) /\ row.total = 0

\* C1: partial-failure containment.  When the worker has finished every job
\* of a batch within the deadline and the scoring call failed for some of
\* them, the batch can leave its wait (every identifier has an outcome), and
\* a batch that got its table has a zero row for each failed job and, for
\* each other job, the row of that job's own result.
C1_FailureContained ==
    \A b \in Calls :
        (Entered(b) /\ (\E i \in 1..Len(job_ids[b]) : job_ids[b][i] \in failed)) =>
            /\ (pc[b] = "sleep" /\ ~expired[b]
                    /\ \A i \in 1..Len(job_ids[b]) : job_ids[b][i] \in Finished)
                  => AllPresent(b)
            /\ HasTable(b) =>
                  \A i \in 1..Len(job_ids[b]) :
                      IF job_ids[b][i] \in failed
                      THEN IsZeroRow(response[b].table.rows[i])
                      ELSE response[b].table.rows[i] =
                              Row(resume_results[job_ids[b][i]], criteria_list[b])

\* C2: exactly one outcome per job.  Every job whose scoring call has
\* returned or raised has been written to resume_results exactly once, under
\* its own identifier.
C2_OneOutcomePerJob ==
    \A id \in Finished :
        id \in DOMAIN resume_results /\ Occurrences(written, id) = 1

\* C3: the table of a batch resolved in time.  Once every job of a waiting
\* batch has a result while the deadline has not passed, the batch can only
\* end with the table that has one row per document, in submission order,
\* each row built from the result stored under that document's identifier.
C3_TableWhenResolvedInTime ==
    \A b \in Calls :
        []((pc[b] = "sleep" /\ ~expired[b] /\ AllPresent(b)) =>
              [](pc[b] = "done" =>
                    /\ response[b].status = 200
                    /\ Len(response[b].table.rows) = Len(job_ids[b])
                    /\ \A i \in 1..Len(job_ids[b]) :
                          response[b].table.rows[i] =
                              Row(resume_results[job_ids[b][i]], criteria_list[b])))

\* C4: three outcomes.  A request that has ended got the complete table (one
\* row per document), an input error (400) or the timeout error (504), and
\* only the first of these carries a table.
C4_ThreeOutcomes ==
    \A b \in Calls :
        pc[b] = "done" =>
            \/ /\ response[b].status = 200
               /\ Len(response[b].table.rows) = Len(job_ids[b])
            \/ /\ response[b].status \in {400, 504}
               /\ response[b].table = NoTable

\* C5: input errors come before any job.  A request that ended with an input
\* error (400) has put no job into the queue.
C5_InputErrorBeforeAnyJob ==
    \A b \in Calls :
        (pc[b] = "done" /\ response[b].status = 400) => job_ids[b] = <<>>

\* C6: a malformed criteria field.  A request whose criteria field is not
\* JSON, or is JSON but not a list, ends at once with 400: it puts no job,
\* never waits, and its step leaves the queue and resume_results unchanged.
C6_MalformedCriteriaRejected ==
    [][\A b \in Calls :
        (pc'[b] # "idle" /\ Malformed(criteria'[b])) =>
            /\ pc'[b] = "done"
            /\ response'[b].status = 400
            /\ job_ids'[b] = <<>>
            /\ pc[b] = "idle" =>
                  /\ resume_scoring_queue' = resume_scoring_queue
                  /\ resume_results' = resume_results
                  /\ enqueued' = enqueued]_vars

\* A request with a JSON criteria field that is not a list was rejected while
\* a job of another request was in the queue.
C6_Witness ==
    \E b \in Calls :
        /\ pc[b] = "done"
        /\ criteria[b].is_json /\ ~criteria[b].is_array
        /\ response[b].status = 400
        /\ resume_scoring_queue # <<>>

\* C7: FIFO across batches.  The worker gets the jobs in the order of their
\* put(): the jobs taken are the first ones put, the queue holds the rest in
\* the same order, and the writes to resume_results are in put() order.
C7_Fifo ==
    /\ Len(taken) <= Len(enqueued)
    /\ taken = SubSeq(enqueued, 1, Len(taken))
    /\ [i \in 1..Len(resume_scoring_queue) |-> resume_scoring_queue[i].job_id]
          = SubSeq(enqueued, Len(taken) + 1, Len(enqueued))
    /\ \A i, j \in 1..Len(written) :
          i < j => Position(enqueued, written[i]) < Position(enqueued, written[j])

\* Two requests wait at the same time and a job of each has been written.
C7_Witness ==
    \E a, b \in Calls :
        /\ a # b
        /\ pc[a] = "sleep" /\ pc[b] = "sleep"
        /\ \E i \in 1..Len(job_ids[a]) : job_ids[a][i] \in Range(written)
        /\ \E i \in 1..Len(job_ids[b]) : job_ids[b][i] \in Range(written)

\* C8: sequential processing.  At most one job has been taken from the queue
\* and not finished, and it is the job the worker holds.
C8_OneInFlight ==
    /\ Cardinality(Range(taken) \ Finished) <= 1
    /\ Cardinality(worker_job) <= 1
    /\ { job.job_id : job \in worker_job } = Range(taken) \ Finished

\* A job is in its scoring call while another job is queued and two requests wait.
C8_Witness ==
    /\ worker_job # {}
    /\ resume_scoring_queue # <<>>
    /\ \A b \in Calls : pc[b] = "sleep"

\* C9: the worker survives failures and drops nothing.  No job is taken
\* twice, a finished job is not in the queue again, and every job put into
\* the queue is eventually taken, also after a job whose scoring failed.
C9_EveryJobTakenOnce ==
    /\ [](\A id \in Range(enqueued) :
             /\ Occurrences(taken, id) <= 1
             /\ id \in Finished =>
                   \A i \in 1..Len(resume_scoring_queue) :
                       resume_scoring_queue[i].job_id # id)
    /\ \A id \in 1..MaxJobs :
          (id \in Range(enqueued)) ~> (id \in Range(taken))

\* The scoring of a job failed and the worker has taken the job after it.
C9_Witness ==
    \E i \in 1..Len(taken) : taken[i] \in failed /\ i < Len(taken)

\* C10: a timeout only while something is missing.  When a request ends with
\* the timeout error, some identifier of its batch is absent from
\* resume_results at that moment.
C10_TimeoutOnlyWhileAbsent ==
    [][\A b \in Calls :
        (pc[b] = "sleep" /\ pc'[b] = "done" /\ response'[b].status = 504) =>
            ~AllPresent(b)]_vars

\* C11: the bounded wait terminates.  Whether or not the worker ever
\* finishes a job, from some point on no request is in the wait loop: a
\* request enters the loop once (pc goes idle, sleep, done), so each request
\* that entered it has left it.
C11_WaitTerminates ==
    <>[](\A b \in Calls : pc[b] # "sleep")

\* A request left the wait loop with the timeout error while one of its jobs
\* was never finished by the worker.
C11_Witness ==
    \E b \in Calls :
        /\ pc[b] = "done"
        /\ response[b].status = 504
        /\ \E i \in 1..Len(job_ids[b]) : job_ids[b][i] \notin Finished

\* The request ended with the timeout error of line 250.
TimedOut(b) == pc[b] = "done" /\ response[b].status = 504

\* The ids of the jobs that wait in the queue, and of the job in flight.
QueueIds == {resume_scoring_queue[i].job_id : i \in 1..Len(resume_scoring_queue)}

InFlightIds == {job.job_id : job \in worker_job}

\* C12: no cancellation on timeout.  The step that ends a request with the
\* timeout error leaves the queue, the job in flight and the results alone;
\* afterwards a job of that request leaves the queue only as its head, taken
\* by the worker, leaves the worker only as finished, and when its scoring
\* call returns its result is in resume_results.
C12_NoCancellation ==
    [][\A b \in Calls :
          /\ (pc[b] = "sleep" /\ TimedOut(b)') =>
                UNCHANGED <<resume_scoring_queue, worker_job, resume_results>>
          /\ TimedOut(b) =>
                \A i \in 1..Len(job_ids[b]) :
                    LET id == job_ids[b][i]
                    IN  /\ id \in QueueIds =>
                              \/ id \in QueueIds'
                              \/ /\ resume_scoring_queue[1].job_id = id
                                 /\ id \in InFlightIds'
                        /\ id \in InFlightIds =>
                              id \in InFlightIds' \/ id \in Finished'
                        /\ (id \notin Range(written) /\ id \in Range(written')) =>
                              id \in DOMAIN resume_results'
      ]_vars

\* A request timed out while one of its jobs was in its scoring call and
\* another still waited in the queue.
C12_Witness ==
    \E b \in Calls :
        /\ TimedOut(b)
        /\ \E i, k \in 1..Len(job_ids[b]) :
              job_ids[b][i] \in InFlightIds /\ job_ids[b][k] \in QueueIds

\* C13: resolution is permanent.  A job id that is a key of resume_results
\* stays a key, with the same value, across every step.
C13_ResolutionPermanent ==
    [][\A id \in DOMAIN resume_results :
          /\ id \in DOMAIN resume_results'
          /\ resume_results'[id] = resume_results[id]
      ]_vars

\* Two results are stored, so the first one survived the write of the
\* second, and a request has ended on them with a table or with the timeout.
C13_Witness ==
    /\ Cardinality(DOMAIN resume_results) >= 2
    /\ \E b \in Calls : HasTable(b) \/ TimedOut(b)

\* C14: resume_results is written by the worker only.  A step of a request
\* (validation, enqueueing, a poll of the wait loop, the assembly of the
\* table, an error response) leaves resume_results and the job in flight
\* unchanged, and changes the queue only by appending, on arrival, the jobs
\* whose ids the request holds.
C14_StoreWrittenByWorkerOnly ==
    [][\A b \in Calls :
          pc'[b] # pc[b] =>
              /\ resume_results' = resume_results
              /\ worker_job' = worker_job
              /\ IF pc[b] = "idle"
                 THEN LET old == Len(resume_scoring_queue)
                          new == Len(job_ids'[b])
                      IN  /\ Len(resume_scoring_queue') = old + new
                          /\ SubSeq(resume_scoring_queue', 1, old) =
                                resume_scoring_queue
                          /\ \A i \in 1..new :
                                resume_scoring_queue'[old + i].job_id =
                                    job_ids'[b][i]
                 ELSE resume_scoring_queue' = resume_scoring_queue
      ]_vars

\* A request was given its table from the stored results while another
\* request is in the wait loop, polling for an id that is absent.
C14_Witness ==
    \E a, b \in Calls :
        /\ HasTable(a)
        /\ AllPresent(a)
        /\ pc[b] = "sleep"
        /\ AnyAbsent(job_ids[b], resume_results)

\* C15: row assembly defaults.  In every table given to a request, the row
\* of each job has one cell per criterion of the request, in the order of
\* the criteria list; the cell is the score stored for that criterion in the
\* job's result when the score map has it, and 0 when it does not.
C15_RowCells ==
    \A b \in Calls :
        HasTable(b) =>
            LET rows == response[b].table.rows
                crits == criteria[b].items
            IN  /\ Len(rows) = Len(job_ids[b])
                /\ \A i \in 1..Len(rows) :
                      LET stored == resume_results[job_ids[b][i]].scores
                      IN  /\ Len(rows[i].cells) = Len(crits)
                          /\ \A k \in 1..Len(crits) :
                                rows[i].cells[k] =
                                    IF crits[k] \in DOMAIN stored
                                    THEN stored[crits[k]]
                                    ELSE 0

\* A table has a row with a stored score in one cell and, for a criterion the
\* score map lacks, the default in another.
C15_Witness ==
    \E b \in Calls :
        /\ HasTable(b)
        /\ \E i \in 1..Len(job_ids[b]) :
              LET stored == resume_results[job_ids[b][i]].scores
                  cells  == response[b].table.rows[i].cells
              IN  /\ "Python" \in DOMAIN stored
                  /\ "AWS" \notin DOMAIN stored
                  /\ cells = <<stored["Python"], 0>>

\* Every key of resume_results is the id of a job that was put in the queue
\* and taken from it by the worker, and of no job that waits in the queue.
ResultKeysTaken ==
    /\ DOMAIN resume_results \subseteq Range(taken)
    /\ Range(taken) \subseteq Range(enqueued)
    /\ DOMAIN resume_results \cap QueueIds = {}

\* C16: results only for taken jobs.  The keys of resume_results are ids of
\* jobs enqueued and then taken by the worker, never of a job still in the
\* queue or never submitted; and a result enters resume_results under the id
\* of the job the worker holds, carrying that job's candidate name.
C16_ResultsOnlyForTakenJobs ==
    [][/\ ResultKeysTaken'
       /\ \A id \in DOMAIN resume_results' \ DOMAIN resume_results :
             \E job \in worker_job :
                 /\ job.job_id = id
                 /\ resume_results'[id].has_name
                 /\ resume_results'[id].candidate_name = job.candidate_name
      ]_vars

\* Results of two jobs are stored under their ids with different candidate
\* names.
C16_Witness ==
    \E id1, id2 \in DOMAIN resume_results :
        /\ id1 # id2
        /\ resume_results[id1].candidate_name # resume_results[id2].candidate_name
        /\ {id1, id2} \subseteq Range(taken)

\* Each enqueued job is in one place: in the queue, with the worker, or
\* finished; and the counts add up.
JobsConserved ==
    /\ Range(enqueued) = QueueIds \cup InFlightIds \cup Finished
    /\ QueueIds \cap InFlightIds = {}
    /\ QueueIds \cap Finished = {}
    /\ InFlightIds \cap Finished = {}
    /\ Cardinality(worker_job) <= 1
    /\ Len(enqueued) = Len(resume_scoring_queue) + Cardinality(worker_job)
                          + Cardinality(Finished)

\* C17: job conservation.  In every state each submitted job is in exactly
\* one of: waiting in the queue, in flight, finished; the number submitted is
\* the queue length plus the jobs in flight (0 or 1) plus the number
\* finished; and across every step no finished job stops being finished.
C17_JobConservation ==
    [][/\ JobsConserved
       /\ JobsConserved'
       /\ Finished \subseteq Finished'
       /\ Cardinality(Finished') >= Cardinality(Finished)
      ]_vars

\* Two jobs were submitted: one is finished and the other is in its scoring
\* call.
C17_Witness ==
    /\ Len(enqueued) = 2
    /\ Cardinality(Finished) = 1
    /\ Cardinality(InFlightIds) = 1

====
